---- MODULE Spec2Model ----
(***************************************************************************)
(* EcoLogiTrack route construction engine.                                 *)
(*                                                                         *)
(* Two implementations of the capacity-constrained greedy constructor are  *)
(* modelled: simple_vrp (src/optimization/route_optimizer.py) and          *)
(* greedy_route_optimization (src/backend/app.py), each with its own       *)
(* create_distance_matrix.                                                 *)
(*                                                                         *)
(* Units.  Coordinates are integers in 1e-4 degree (30.9010 -> 309010).    *)
(* haversine_distance returns millimetres (1e-6 km): the value the Python  *)
(* function returns on the registry coordinates, tabulated to the nearest  *)
(* millimetre.  round(x, 2) is Round2, which maps millimetres to           *)
(* hundredths of a kilometre; matrix entries, route distances and the      *)
(* 50.0 default are therefore in hundredths of a kilometre (50.0 -> 5000). *)
(* Sums of distances are exact here; the binary floating-point error of    *)
(* Python's += on such sums (below 1e-9 km) is not represented.            *)
(*                                                                         *)
(* Python lists that the code indexes (cities, demands, visited, the       *)
(* matrix, the vehicle list) are functions on 0..len-1; a route is a       *)
(* sequence of 0-based location indices.                                   *)
(***************************************************************************)
EXTENDS Integers, Sequences, FiniteSets

VARIABLES
    impl,             \* which constructor is called
    cities,           \* argument: location identifiers (locations in app.py)
    demands,          \* argument: demand per location
    num_vehicles,     \* argument
    capacity,         \* argument
    pc,               \* position of the call
    bound,            \* names of the locals the call has created so far
    distance_matrix,  \* local
    vehicles,         \* local: vehicles (simple_vrp) / routes (greedy)
    visited,          \* local
    current_vehicle,  \* local: the cursor
    result,           \* the returned value, a record keyed like the dict
    error,            \* the exception that left the call, or "none"
    iterations,       \* history: entries into the body of the while loop
    frames,           \* the calls in progress at once, each with its own locals
    tsp               \* the call of nearest_neighbor_tsp: arguments, locals, position

vars == << impl, cities, demands, num_vehicles, capacity, pc, bound,
           distance_matrix, vehicles, visited, current_vehicle, result, error,
           iterations, frames, tsp >>

inputs == << impl, cities, demands, num_vehicles, capacity >>

----------------------------------------------------------------------------
(* Bounds of the model *)

MaxLocs == 3

MaxDemand == 2

MaxVehicles == 3

MaxCapacity == 3

MaxMatrixLen == 3

(* Identifiers fed to the constructor and to the matrix builder. *)
Identifiers == {"depot", "Jalandhar"}

MatrixIdentifiers ==
    {"depot", "ludhiana", "jalandhar", "Jalandhar", " jalandhar", "Amritsar", "xyz"}

----------------------------------------------------------------------------
(* Python helpers *)

PyLen(l) == Cardinality(DOMAIN l)

Indices(n) == 0..(n - 1)

EmptyList == [k \in {} |-> 0]

Last(s) == s[Len(s)]

RECURSIVE SumOver(_, _)
SumOver(f, S) ==
    IF S = {} THEN 0
    ELSE LET k == CHOOSE x \in S : TRUE IN f[k] + SumOver(f, S \ {k})

(* str.lower() on the identifiers the model feeds in. *)
lower(s) ==
    CASE s = "Jalandhar" -> "jalandhar"
      [] s = "Amritsar"  -> "amritsar"
      [] OTHER           -> s

(* round(x, 2): millimetres to hundredths of a kilometre. *)
Round2(mm) == (mm + 5000) \div 10000

----------------------------------------------------------------------------
(* Location registry and distance oracle *)

PUNJAB_CITIES ==
    [ ludhiana |-> [lat |-> 309010, lon |-> 758573],
      jalandhar |-> [lat |-> 313260, lon |-> 755762],
      amritsar |-> [lat |-> 316340, lon |-> 748723],
      patiala |-> [lat |-> 303398, lon |-> 763869],
      bathinda |-> [lat |-> 302110, lon |-> 749455],
      mohali |-> [lat |-> 307046, lon |-> 767179],
      hoshiarpur |-> [lat |-> 315330, lon |-> 759120],
      firozpur |-> [lat |-> 309257, lon |-> 746142],
      moga |-> [lat |-> 308158, lon |-> 751705],
      kapurthala |-> [lat |-> 313800, lon |-> 753800] ]


CITY_COORDINATES ==
    [ ludhiana   |-> <<309010, 758573>>,
      jalandhar  |-> <<313260, 755762>>,
      amritsar   |-> <<316340, 748723>>,
      patiala    |-> <<303398, 763869>>,
      bathinda   |-> <<302110, 749455>>,
      mohali     |-> <<307046, 767179>>,
      hoshiarpur |-> <<315330, 759120>>,
      depot      |-> <<309010, 758573>> ]

(* The registry coordinates, in the order of the rows and columns of      *)
(* HaversineTable.                                                         *)
CoordOrder ==
    << <<309010, 758573>>,
       <<313260, 755762>>,
       <<316340, 748723>>,
       <<303398, 763869>>,
       <<302110, 749455>>,
       <<307046, 767179>>,
       <<315330, 759120>>,
       <<309257, 746142>>,
       <<308158, 751705>>,
       <<313800, 753800>> >>

HaversineTable ==
    << <<0, 54308544, 124126293, 80388042, 116228768, 85046663, 70467439, 118621876, 66238621, 70002382>>,
       <<54308544, 0, 75023467, 134226005, 137849699, 128886154, 39305397, 101814121, 68640177, 19574459>>,
       <<124126293, 75023467, 0, 203845958, 158384356, 203744705, 99122930, 82490180, 95295748, 55805756>>,
       <<80388042, 134226005, 203845958, 0, 139154595, 51484560, 140195568, 181687006, 127911750, 150383261>>,
       <<116228768, 137849699, 158384356, 139154595, 0, 178528582, 173542113, 85567036, 70620265, 136450974>>,
       <<85046663, 128886154, 203744705, 51484560, 178528582, 0, 119875617, 202392428, 148371309, 147939824>>,
       <<70467439, 39305397, 99122930, 140195568, 173542113, 119875617, 0, 140665483, 106472108, 53252599>>,
       <<118621876, 101814121, 82490180, 181687006, 85567036, 202392428, 140665483, 0, 54482281, 88669450>>,
       <<66238621, 68640177, 95295748, 127911750, 70620265, 148371309, 106472108, 54482281, 0, 65831017>>,
       <<70002382, 19574459, 55805756, 150383261, 136450974, 147939824, 53252599, 88669450, 65831017, 0>> >>

CoordIndex(lat, lon) == CHOOSE k \in 1..Len(CoordOrder) : CoordOrder[k] = <<lat, lon>>

haversine_distance(lat1, lon1, lat2, lon2) ==
    HaversineTable[CoordIndex(lat1, lon1)][CoordIndex(lat2, lon2)]

DefaultDistance == 5000

(* vrp_matrix_entry without the i != j guard of line 49 *)
vrp_matrix_entry_unguarded(cs, i, j) ==
    LET city1 == lower(cs[i])
        city2 == lower(cs[j])
    IN  IF city1 \in DOMAIN PUNJAB_CITIES /\ city2 \in DOMAIN PUNJAB_CITIES
        THEN LET coord1 == PUNJAB_CITIES[city1]
                 coord2 == PUNJAB_CITIES[city2]
             IN  Round2(haversine_distance(coord1.lat, coord1.lon,
                                           coord2.lat, coord2.lon))
        ELSE DefaultDistance

(* route_optimizer.py: unknown identifier on either side gives 50.0 *)
vrp_matrix_entry(cs, i, j) ==
    IF i # j
    THEN LET city1 == lower(cs[i])
             city2 == lower(cs[j])
         IN  IF city1 \in DOMAIN PUNJAB_CITIES /\ city2 \in DOMAIN PUNJAB_CITIES
             THEN LET coord1 == PUNJAB_CITIES[city1]
                      coord2 == PUNJAB_CITIES[city2]
                  IN  Round2(haversine_distance(coord1.lat, coord1.lon,
                                                coord2.lat, coord2.lon))
             ELSE DefaultDistance
    ELSE 0

create_distance_matrix(cs) ==
    LET n == PyLen(cs)
    IN  [i \in Indices(n) |-> [j \in Indices(n) |-> vrp_matrix_entry(cs, i, j)]]

(* app.py: unknown identifier resolves to the 'depot' entry *)
dict_get(d, k, default) == IF k \in DOMAIN d THEN d[k] ELSE default

app_matrix_entry(locations, i, j) ==
    IF i # j
    THEN LET loc1 == lower(locations[i])
             loc2 == lower(locations[j])
             coord1 == dict_get(CITY_COORDINATES, loc1, CITY_COORDINATES["depot"])
             coord2 == dict_get(CITY_COORDINATES, loc2, CITY_COORDINATES["depot"])
         IN  Round2(haversine_distance(coord1[1], coord1[2], coord2[1], coord2[2]))
    ELSE 0

app_create_distance_matrix(locations) ==
    LET n == PyLen(locations)
    IN  [i \in Indices(n) |-> [j \in Indices(n) |-> app_matrix_entry(locations, i, j)]]

----------------------------------------------------------------------------
(* Route constructor: shared conventions *)

None == -1

Inf == 1000000000

NoResult == [k \in {} |-> 0]

AllLocals == {"distance_matrix", "vehicles", "visited", "current_vehicle"}

all(vis) == \A k \in DOMAIN vis : vis[k]

(* round(x, 2) of a distance held in hundredths of a kilometre *)
RoundDistance(d) == Round2(d * 10000)

(* WhileTest of a loop whose condition is always true *)
WhileTest_always(vis) == "loop"

(* position after the while test: the loop body runs next, or the loop is left *)
WhileTest(vis) == IF all(vis) THEN "close" ELSE "loop"

----------------------------------------------------------------------------
(* simple_vrp, src/optimization/route_optimizer.py *)

vrp_validate ==
    /\ impl = "simple_vrp"
    /\ pc = "call"
    /\ IF PyLen(cities) # PyLen(demands)
       THEN error' = "ValueError" /\ pc' = "raised"
       ELSE IF 0 \notin DOMAIN demands
       THEN error' = "IndexError" /\ pc' = "raised"
       ELSE IF demands[0] # 0
       THEN error' = "ValueError" /\ pc' = "raised"
       ELSE error' = error /\ pc' = "setup"
    /\ iterations' = iterations
    /\ UNCHANGED << frames, tsp >>
    /\ UNCHANGED << inputs, bound, distance_matrix, vehicles, visited,
                    current_vehicle, result >>

vrp_new_vehicle(v) ==
    [vehicle_id |-> v + 1, route |-> <<0>>, load |-> 0, distance |-> 0,
     cities |-> <<"Depot">>]

vrp_setup ==
    /\ impl = "simple_vrp"
    /\ pc = "setup"
    /\ distance_matrix' = create_distance_matrix(cities)
    /\ vehicles' = [v \in Indices(num_vehicles) |-> vrp_new_vehicle(v)]
    /\ visited' = [k \in Indices(PyLen(cities)) |-> k = 0]
    /\ current_vehicle' = 0
    /\ bound' = AllLocals
    /\ pc' = WhileTest(visited')
    /\ iterations' = iterations
    /\ UNCHANGED << frames, tsp >>
    /\ UNCHANGED << inputs, result, error >>

(* vrp_improves with <= for <: the last of several nearest wins *)
vrp_improves_or_equal(dist, best_distance) == dist <= best_distance

(* lines 139-149: the scan for the nearest location that fits *)
vrp_improves(dist, best_distance) == dist < best_distance

(* vrp_feasible comparing the load alone with the capacity *)
vrp_feasible_load_only(i, vis, load, dem, cap) == ~vis[i] /\ load <= cap

(* vrp_feasible with < for <=: a demand that fills the vehicle is refused *)
vrp_feasible_strict(i, vis, load, dem, cap) == ~vis[i] /\ load + dem[i] < cap

(* vrp_feasible without the visited test *)
vrp_feasible_revisit(i, vis, load, dem, cap) == load + dem[i] <= cap

(* lines 143-145: unvisited, and the demand fits *)
vrp_feasible(i, vis, load, dem, cap) == ~vis[i] /\ load + dem[i] <= cap

RECURSIVE vrp_scan(_, _, _, _, _, _, _, _)
vrp_scan(i, n, vis, load, dem, cap, row, best) ==
    IF i >= n THEN best
    ELSE IF vrp_feasible(i, vis, load, dem, cap)
         THEN IF vrp_improves(row[i], best.distance)
              THEN vrp_scan(i + 1, n, vis, load, dem, cap, row,
                            [location |-> i, distance |-> row[i]])
              ELSE vrp_scan(i + 1, n, vis, load, dem, cap, row, best)
         ELSE vrp_scan(i + 1, n, vis, load, dem, cap, row, best)

vrp_best(vehicle) ==
    vrp_scan(1, PyLen(cities), visited, vehicle.load, demands, capacity,
             distance_matrix[Last(vehicle.route)],
             [location |-> None, distance |-> Inf])

(* vrp_close that never appends the depot *)
vrp_close_never(vehicle, matrix) == vehicle

(* vrp_close that appends the depot without adding the return leg *)
vrp_close_no_distance(vehicle, matrix) ==
    IF Last(vehicle.route) # 0
    THEN [vehicle EXCEPT !.route = Append(@, 0),
                         !.cities = Append(@, "Depot")]
    ELSE vehicle

(* lines 161-164 and 174-177: return to the depot *)
vrp_close(vehicle, matrix) ==
    IF Last(vehicle.route) # 0
    THEN [vehicle EXCEPT !.route = Append(@, 0),
                         !.cities = Append(@, "Depot"),
                         !.distance = @ + matrix[Last(vehicle.route)][0]]
    ELSE vehicle

(* line 135 with an empty vehicle list *)
vrp_index_error ==
    /\ impl = "simple_vrp"
    /\ pc = "loop"
    /\ current_vehicle \notin DOMAIN vehicles
    /\ error' = "IndexError"
    /\ pc' = "raised"
    /\ iterations' = iterations + 1
    /\ UNCHANGED << frames, tsp >>
    /\ UNCHANGED << inputs, bound, distance_matrix, vehicles, visited,
                    current_vehicle, result >>

(* lines 151-157 *)
vrp_assign ==
    /\ impl = "simple_vrp"
    /\ pc = "loop"
    /\ current_vehicle \in DOMAIN vehicles
    /\ LET vehicle == vehicles[current_vehicle]
           best == vrp_best(vehicle)
       IN  /\ best.location # None
           /\ vehicles' = [vehicles EXCEPT ![current_vehicle] =
                  [vehicle EXCEPT !.route = Append(@, best.location),
                                  !.cities = Append(@, cities[best.location]),
                                  !.load = @ + demands[best.location],
                                  !.distance = @ + best.distance]]
           /\ visited' = [visited EXCEPT ![best.location] = TRUE]
    /\ pc' = WhileTest(visited')
    /\ iterations' = iterations + 1
    /\ UNCHANGED << frames, tsp >>
    /\ UNCHANGED << inputs, bound, distance_matrix, current_vehicle, result, error >>

(* vrp_advance that leaves the loop on > for >= *)
vrp_advance_off_by_one ==
    /\ impl = "simple_vrp"
    /\ pc = "loop"
    /\ current_vehicle \in DOMAIN vehicles
    /\ LET vehicle == vehicles[current_vehicle]
       IN  /\ vrp_best(vehicle).location = None
           /\ vehicles' = [vehicles EXCEPT ![current_vehicle] =
                               vrp_close(vehicle, distance_matrix)]
    /\ current_vehicle' = current_vehicle + 1
    /\ pc' = IF current_vehicle' > num_vehicles THEN "close" ELSE WhileTest(visited)
    /\ iterations' = iterations + 1
    /\ UNCHANGED << frames, tsp >>
    /\ UNCHANGED << inputs, bound, distance_matrix, visited, result, error >>

(* lines 158-170 *)
vrp_advance ==
    /\ impl = "simple_vrp"
    /\ pc = "loop"
    /\ current_vehicle \in DOMAIN vehicles
    /\ LET vehicle == vehicles[current_vehicle]
       IN  /\ vrp_best(vehicle).location = None
           /\ vehicles' = [vehicles EXCEPT ![current_vehicle] =
                               vrp_close(vehicle, distance_matrix)]
    /\ current_vehicle' = current_vehicle + 1
    /\ pc' = IF current_vehicle' >= num_vehicles THEN "close" ELSE WhileTest(visited)
    /\ iterations' = iterations + 1
    /\ UNCHANGED << frames, tsp >>
    /\ UNCHANGED << inputs, bound, distance_matrix, visited, result, error >>

(* lines 172-189 *)
vrp_finish_vehicle(vehicle, matrix) ==
    LET closed == vrp_close(vehicle, matrix)
    IN  [closed EXCEPT !.distance = RoundDistance(@)]

vrp_finish ==
    /\ impl = "simple_vrp"
    /\ pc = "close"
    /\ vehicles' = [v \in DOMAIN vehicles |->
                        vrp_finish_vehicle(vehicles[v], distance_matrix)]
    /\ LET total_distance ==
               SumOver([v \in DOMAIN vehicles |-> vehicles'[v].distance],
                       DOMAIN vehicles)
       IN  result' = [vehicles |-> vehicles',
                      total_distance |-> RoundDistance(total_distance),
                      distance_matrix |-> distance_matrix]
    /\ pc' = "done"
    /\ iterations' = iterations
    /\ UNCHANGED << frames, tsp >>
    /\ UNCHANGED << inputs, bound, distance_matrix, visited, current_vehicle, error >>

----------------------------------------------------------------------------
(* greedy_route_optimization, src/backend/app.py.  The list it returns is  *)
(* held in the field routes of result, the key optimize_routes gives it.   *)

greedy_new_route(v) == [stops |-> <<0>>, load |-> 0, distance |-> 0]

(* lines 317-325; visited[0] = True raises on an empty location list *)
greedy_setup ==
    /\ impl = "greedy_route_optimization"
    /\ pc = "call"
    /\ distance_matrix' = app_create_distance_matrix(cities)
    /\ vehicles' = [v \in Indices(num_vehicles) |-> greedy_new_route(v)]
    /\ IF PyLen(cities) = 0
       THEN /\ visited' = EmptyList
            /\ bound' = {"distance_matrix", "vehicles", "visited"}
            /\ error' = "IndexError"
            /\ pc' = "raised"
       ELSE /\ visited' = [k \in Indices(PyLen(cities)) |-> k = 0]
            /\ bound' = AllLocals
            /\ error' = error
            /\ pc' = WhileTest(visited')
    /\ current_vehicle' = 0
    /\ iterations' = iterations
    /\ UNCHANGED << frames, tsp >>
    /\ UNCHANGED << inputs, result >>

(* lines 332-340: the scan for the nearest location that fits *)
greedy_improves(dist, best_distance) == dist < best_distance

(* line 336: unvisited, and the demand fits *)
greedy_feasible(i, vis, load, dem, cap) == ~vis[i] /\ load + dem[i] <= cap

RECURSIVE greedy_scan(_, _, _, _, _, _, _, _)
greedy_scan(i, n, vis, load, dem, cap, row, best) ==
    IF i >= n THEN best
    ELSE IF greedy_feasible(i, vis, load, dem, cap)
         THEN IF greedy_improves(row[i], best.distance)
              THEN greedy_scan(i + 1, n, vis, load, dem, cap, row,
                               [location |-> i, distance |-> row[i]])
              ELSE greedy_scan(i + 1, n, vis, load, dem, cap, row, best)
         ELSE greedy_scan(i + 1, n, vis, load, dem, cap, row, best)

greedy_best(route) ==
    greedy_scan(1, PyLen(cities), visited, route.load, demands, capacity,
                distance_matrix[Last(route.stops)],
                [location |-> None, distance |-> Inf])

(* line 336 reads demands[i] for every unvisited i in 1..n-1 *)
greedy_scan_raises ==
    \E i \in 1..(PyLen(cities) - 1) : ~visited[i] /\ i \notin DOMAIN demands

(* line 328 with an empty route list, or line 336 past the end of demands *)
greedy_index_error ==
    /\ impl = "greedy_route_optimization"
    /\ pc = "loop"
    /\ current_vehicle \notin DOMAIN vehicles \/ greedy_scan_raises
    /\ error' = "IndexError"
    /\ pc' = "raised"
    /\ iterations' = iterations + 1
    /\ UNCHANGED << frames, tsp >>
    /\ UNCHANGED << inputs, bound, distance_matrix, vehicles, visited,
                    current_vehicle, result >>

(* lines 342-346 *)
greedy_assign ==
    /\ impl = "greedy_route_optimization"
    /\ pc = "loop"
    /\ current_vehicle \in DOMAIN vehicles
    /\ ~greedy_scan_raises
    /\ LET route == vehicles[current_vehicle]
           best == greedy_best(route)
       IN  /\ best.location # None
           /\ vehicles' = [vehicles EXCEPT ![current_vehicle] =
                  [route EXCEPT !.stops = Append(@, best.location),
                                !.load = @ + demands[best.location],
                                !.distance = @ + best.distance]]
           /\ visited' = [visited EXCEPT ![best.location] = TRUE]
    /\ pc' = WhileTest(visited')
    /\ iterations' = iterations + 1
    /\ UNCHANGED << frames, tsp >>
    /\ UNCHANGED << inputs, bound, distance_matrix, current_vehicle, result, error >>

(* lines 348-350: return to the depot *)
greedy_return_to_depot(route, matrix) ==
    [route EXCEPT !.stops = Append(@, 0),
                  !.distance = @ + matrix[Last(route.stops)][0]]

(* lines 347-353 *)
greedy_advance ==
    /\ impl = "greedy_route_optimization"
    /\ pc = "loop"
    /\ current_vehicle \in DOMAIN vehicles
    /\ ~greedy_scan_raises
    /\ LET route == vehicles[current_vehicle]
       IN  /\ greedy_best(route).location = None
           /\ vehicles' = [vehicles EXCEPT ![current_vehicle] =
                               greedy_return_to_depot(route, distance_matrix)]
    /\ current_vehicle' = current_vehicle + 1
    /\ pc' = IF current_vehicle' >= num_vehicles THEN "close" ELSE WhileTest(visited)
    /\ iterations' = iterations + 1
    /\ UNCHANGED << frames, tsp >>
    /\ UNCHANGED << inputs, bound, distance_matrix, visited, result, error >>

(* lines 356-359 *)
greedy_close(route, matrix) ==
    IF Last(route.stops) # 0 /\ Len(route.stops) > 1
    THEN [route EXCEPT !.stops = Append(@, 0),
                       !.distance = @ + matrix[Last(route.stops)][0]]
    ELSE route

(* lines 355-361 *)
greedy_finish ==
    /\ impl = "greedy_route_optimization"
    /\ pc = "close"
    /\ vehicles' = [v \in DOMAIN vehicles |-> greedy_close(vehicles[v], distance_matrix)]
    /\ result' = [routes |-> vehicles']
    /\ pc' = "done"
    /\ iterations' = iterations
    /\ UNCHANGED << frames, tsp >>
    /\ UNCHANGED << inputs, bound, distance_matrix, visited, current_vehicle, error >>

(* optimize_routes, line 383: the total the handler stores and returns *)
optimize_routes_total_distance(routes) ==
    SumOver([v \in DOMAIN routes |-> routes[v].distance], DOMAIN routes)

----------------------------------------------------------------------------
(* Specification of one call of a constructor on arbitrary bounded input *)

Lists(n, S) == UNION {[Indices(k) -> S] : k \in 0..n}

Init ==
    /\ impl \in {"simple_vrp", "greedy_route_optimization"}
    /\ cities \in Lists(MaxLocs, Identifiers)
    /\ demands \in Lists(MaxLocs, 0..MaxDemand)
    /\ num_vehicles \in 0..MaxVehicles
    /\ capacity \in 0..MaxCapacity
    /\ pc = "call"
    /\ bound = {}
    /\ distance_matrix = EmptyList
    /\ vehicles = EmptyList
    /\ visited = EmptyList
    /\ current_vehicle = 0
    /\ result = NoResult
    /\ error = "none"
    /\ iterations = 0
    /\ frames = EmptyList
    /\ tsp = EmptyList

Next ==
    \/ vrp_validate
    \/ vrp_setup
    \/ vrp_index_error
    \/ vrp_assign
    \/ vrp_advance
    \/ vrp_finish
    \/ greedy_setup
    \/ greedy_index_error
    \/ greedy_assign
    \/ greedy_advance
    \/ greedy_finish

Spec == Init /\ [][Next]_vars

(* a call that has not returned or raised takes its next step *)
SpecFair == Spec /\ WF_vars(Next)

----------------------------------------------------------------------------
(* Specification of the matrix builders alone, on a wider identifier set *)

MatrixInit ==
    /\ impl \in {"simple_vrp", "greedy_route_optimization"}
    /\ cities \in Lists(MaxMatrixLen, MatrixIdentifiers)
    /\ demands = EmptyList
    /\ num_vehicles = 0
    /\ capacity = 0
    /\ pc = "matrix_call"
    /\ bound = {}
    /\ distance_matrix = EmptyList
    /\ vehicles = EmptyList
    /\ visited = EmptyList
    /\ current_vehicle = 0
    /\ result = NoResult
    /\ error = "none"
    /\ iterations = 0
    /\ frames = EmptyList
    /\ tsp = EmptyList

BuildMatrix ==
    /\ pc = "matrix_call"
    /\ distance_matrix' = IF impl = "simple_vrp"
                          THEN create_distance_matrix(cities)
                          ELSE app_create_distance_matrix(cities)
    /\ bound' = {"distance_matrix"}
    /\ pc' = "matrix_done"
    /\ iterations' = iterations
    /\ UNCHANGED << frames, tsp >>
    /\ UNCHANGED << inputs, vehicles, visited, current_vehicle, result, error >>

MatrixNext == BuildMatrix

SpecMatrix == MatrixInit /\ [][MatrixNext]_vars

----------------------------------------------------------------------------
(* One call as a value: its arguments, its locals and its position.  A    *)
(* step of a call is a function of its frame alone, because the code of    *)
(* both constructors reads and writes only arguments and locals, and the   *)
(* registry tables, which are only read.                                   *)

Frame(im, c, d, nv, cap) ==
    [impl |-> im, cities |-> c, demands |-> d, num_vehicles |-> nv,
     capacity |-> cap, pc |-> "call", distance_matrix |-> EmptyList,
     vehicles |-> EmptyList, visited |-> EmptyList, current_vehicle |-> 0,
     result |-> NoResult, error |-> "none"]

Raise(fr, exception) == [fr EXCEPT !.error = exception, !.pc = "raised"]

(* simple_vrp, one step: lines 106-110, 112-132, one pass of 134-170, 172-189 *)
vrp_step(fr) ==
    CASE fr.pc = "call" ->
            IF PyLen(fr.cities) # PyLen(fr.demands) THEN Raise(fr, "ValueError")
            ELSE IF 0 \notin DOMAIN fr.demands THEN Raise(fr, "IndexError")
            ELSE IF fr.demands[0] # 0 THEN Raise(fr, "ValueError")
            ELSE [fr EXCEPT !.pc = "setup"]
      [] fr.pc = "setup" ->
            LET vis == [k \in Indices(PyLen(fr.cities)) |-> k = 0]
            IN  [fr EXCEPT !.distance_matrix = create_distance_matrix(fr.cities),
                           !.vehicles = [v \in Indices(fr.num_vehicles) |->
                                            vrp_new_vehicle(v)],
                           !.visited = vis,
                           !.current_vehicle = 0,
                           !.pc = WhileTest(vis)]
      [] fr.pc = "loop" ->
            IF fr.current_vehicle \notin DOMAIN fr.vehicles
            THEN Raise(fr, "IndexError")
            ELSE LET vehicle == fr.vehicles[fr.current_vehicle]
                     best == vrp_scan(1, PyLen(fr.cities), fr.visited, vehicle.load,
                                      fr.demands, fr.capacity,
                                      fr.distance_matrix[Last(vehicle.route)],
                                      [location |-> None, distance |-> Inf])
                     vis == [fr.visited EXCEPT ![best.location] = TRUE]
                 IN  IF best.location # None
                     THEN [fr EXCEPT
                             !.vehicles[fr.current_vehicle] =
                                [vehicle EXCEPT
                                   !.route = Append(@, best.location),
                                   !.cities = Append(@, fr.cities[best.location]),
                                   !.load = @ + fr.demands[best.location],
                                   !.distance = @ + best.distance],
                             !.visited = vis,
                             !.pc = WhileTest(vis)]
                     ELSE [fr EXCEPT
                             !.vehicles[fr.current_vehicle] =
                                vrp_close(vehicle, fr.distance_matrix),
                             !.current_vehicle = @ + 1,
                             !.pc = IF fr.current_vehicle + 1 >= fr.num_vehicles
                                    THEN "close" ELSE WhileTest(fr.visited)]
      [] fr.pc = "close" ->
            LET vs == [v \in DOMAIN fr.vehicles |->
                          vrp_finish_vehicle(fr.vehicles[v], fr.distance_matrix)]
                total_distance ==
                    SumOver([v \in DOMAIN vs |-> vs[v].distance], DOMAIN vs)
            IN  [fr EXCEPT !.vehicles = vs,
                           !.result = [vehicles |-> vs,
                                       total_distance |-> RoundDistance(total_distance),
                                       distance_matrix |-> fr.distance_matrix],
                           !.pc = "done"]
      [] OTHER -> fr

(* greedy_route_optimization, one step: lines 317-325, one pass of 327-353, *)
(* 355-361                                                                  *)
greedy_step(fr) ==
    CASE fr.pc = "call" ->
            LET vis == [k \in Indices(PyLen(fr.cities)) |-> k = 0]
                built == [fr EXCEPT
                            !.distance_matrix = app_create_distance_matrix(fr.cities),
                            !.vehicles = [v \in Indices(fr.num_vehicles) |->
                                             greedy_new_route(v)]]
            IN  IF PyLen(fr.cities) = 0
                THEN Raise(built, "IndexError")
                ELSE [built EXCEPT !.visited = vis, !.pc = WhileTest(vis)]
      [] fr.pc = "loop" ->
            IF \/ fr.current_vehicle \notin DOMAIN fr.vehicles
               \/ \E i \in 1..(PyLen(fr.cities) - 1) :
                     ~fr.visited[i] /\ i \notin DOMAIN fr.demands
            THEN Raise(fr, "IndexError")
            ELSE LET route == fr.vehicles[fr.current_vehicle]
                     best == greedy_scan(1, PyLen(fr.cities), fr.visited, route.load,
                                         fr.demands, fr.capacity,
                                         fr.distance_matrix[Last(route.stops)],
                                         [location |-> None, distance |-> Inf])
                     vis == [fr.visited EXCEPT ![best.location] = TRUE]
                 IN  IF best.location # None
                     THEN [fr EXCEPT
                             !.vehicles[fr.current_vehicle] =
                                [route EXCEPT
                                   !.stops = Append(@, best.location),
                                   !.load = @ + fr.demands[best.location],
                                   !.distance = @ + best.distance],
                             !.visited = vis,
                             !.pc = WhileTest(vis)]
                     ELSE [fr EXCEPT
                             !.vehicles[fr.current_vehicle] =
                                greedy_return_to_depot(route, fr.distance_matrix),
                             !.current_vehicle = @ + 1,
                             !.pc = IF fr.current_vehicle + 1 >= fr.num_vehicles
                                    THEN "close" ELSE WhileTest(fr.visited)]
      [] fr.pc = "close" ->
            LET vs == [v \in DOMAIN fr.vehicles |->
                          greedy_close(fr.vehicles[v], fr.distance_matrix)]
            IN  [fr EXCEPT !.vehicles = vs,
                           !.result = [routes |-> vs],
                           !.pc = "done"]
      [] OTHER -> fr

FrameStep(fr) ==
    IF fr.impl = "simple_vrp" THEN vrp_step(fr) ELSE greedy_step(fr)

Returned(fr) == fr.pc \in {"done", "raised"}

(* the frame of the single call of Spec *)
CurrentFrame ==
    [impl |-> impl, cities |-> cities, demands |-> demands,
     num_vehicles |-> num_vehicles, capacity |-> capacity, pc |-> pc,
     distance_matrix |-> distance_matrix, vehicles |-> vehicles,
     visited |-> visited, current_vehicle |-> current_vehicle,
     result |-> result, error |-> error]

(* every step of Spec is the step function applied to the call's frame *)
StepIsFrameStep == [][CurrentFrame' = FrameStep(CurrentFrame)]_vars

----------------------------------------------------------------------------
(* Specification of requests served at once: each request is a call with   *)
(* its own frame, and the steps of the calls interleave in any order.      *)

NumCalls == 2

Calls == 1..NumCalls

(* known cities, so that both matrix builders give the same distances *)
RequestCities ==
    [k \in Indices(MaxLocs) |->
        << "ludhiana", "jalandhar", "Amritsar" >>[(k % 3) + 1]]

RequestDemands(d) == [k \in Indices(MaxLocs) |-> IF k = 0 THEN 0 ELSE d]

Requests ==
    { Frame(im, RequestCities, RequestDemands(d), nv, cap) :
         im \in {"simple_vrp", "greedy_route_optimization"},
         d \in 1..MaxDemand, nv \in 1..MaxVehicles, cap \in 1..MaxCapacity }

(* frames shared cursor: the cursor kept in one place for all calls *)
StoreFrame_shared_cursor(fs, c, fr) ==
    [k \in DOMAIN fs |->
        IF k = c THEN fr
        ELSE [fs[k] EXCEPT !.current_vehicle = fr.current_vehicle]]

(* a call's assignments bind names in its own frame *)
StoreFrame(fs, c, fr) == [fs EXCEPT ![c] = fr]

ConcurrentInit ==
    /\ frames \in [Calls -> Requests]
    /\ tsp = EmptyList
    /\ impl = "simple_vrp"
    /\ cities = EmptyList
    /\ demands = EmptyList
    /\ num_vehicles = 0
    /\ capacity = 0
    /\ pc = "serving"
    /\ bound = {}
    /\ distance_matrix = EmptyList
    /\ vehicles = EmptyList
    /\ visited = EmptyList
    /\ current_vehicle = 0
    /\ result = NoResult
    /\ error = "none"
    /\ iterations = 0

CallStep(c) ==
    /\ ~Returned(frames[c])
    /\ frames' = StoreFrame(frames, c, FrameStep(frames[c]))
    /\ UNCHANGED << inputs, pc, bound, distance_matrix, vehicles, visited,
                    current_vehicle, result, error, iterations, tsp >>

ConcurrentNext == \E c \in Calls : CallStep(c)

SpecConcurrent == ConcurrentInit /\ [][ConcurrentNext]_vars

----------------------------------------------------------------------------
(* Specification of one call of nearest_neighbor_tsp (lines 71-94) on an   *)
(* arbitrary square matrix.  min over a Python set returns the first       *)
(* minimal element in the set's iteration order, which the language leaves *)
(* unspecified: the step takes any unvisited index of minimal distance.    *)

MaxTspLen == 3

TspDistances == {1, 2}

TspMatrices ==
    UNION {[Indices(n) -> [Indices(n) -> TspDistances]] : n \in 0..MaxTspLen}

(* the candidates of min with the comparison reversed *)
tsp_nearest_farthest(row, unvisited) ==
    {x \in unvisited : \A y \in unvisited : row[x] >= row[y]}

(* line 84: the unvisited indices of minimal distance from the current one *)
tsp_nearest(row, unvisited) ==
    {x \in unvisited : \A y \in unvisited : row[x] <= row[y]}

(* the test of while unvisited *)
TspWhileTest(unvisited) == IF unvisited = {} THEN "return" ELSE "loop"

TspInit ==
    /\ tsp \in {[pc |-> "call", distance_matrix |-> m, start |-> st,
                 unvisited |-> {}, current |-> None, route |-> << >>,
                 total_distance |-> 0, error |-> "none"] :
                   m \in TspMatrices, st \in 0..MaxTspLen}
    /\ frames = EmptyList
    /\ impl = "simple_vrp"
    /\ cities = EmptyList
    /\ demands = EmptyList
    /\ num_vehicles = 0
    /\ capacity = 0
    /\ pc = "tsp"
    /\ bound = {}
    /\ distance_matrix = EmptyList
    /\ vehicles = EmptyList
    /\ visited = EmptyList
    /\ current_vehicle = 0
    /\ result = NoResult
    /\ error = "none"
    /\ iterations = 0

TspUnchanged ==
    UNCHANGED << inputs, pc, bound, distance_matrix, vehicles, visited,
                 current_vehicle, result, error, iterations, frames >>

(* lines 76-81; unvisited.remove(current) raises KeyError when start is not *)
(* an index of the matrix                                                   *)
tsp_setup ==
    /\ tsp.pc = "call"
    /\ LET n == PyLen(tsp.distance_matrix)
           unvisited == Indices(n) \ {tsp.start}
       IN  IF tsp.start \notin Indices(n)
           THEN tsp' = [tsp EXCEPT !.unvisited = Indices(n),
                                   !.current = tsp.start,
                                   !.route = << tsp.start >>,
                                   !.error = "KeyError",
                                   !.pc = "raised"]
           ELSE tsp' = [tsp EXCEPT !.unvisited = unvisited,
                                   !.current = tsp.start,
                                   !.route = << tsp.start >>,
                                   !.pc = TspWhileTest(unvisited)]
    /\ TspUnchanged

(* lines 83-88, one iteration *)
tsp_visit ==
    /\ tsp.pc = "loop"
    /\ \E nearest \in tsp_nearest(tsp.distance_matrix[tsp.current], tsp.unvisited) :
          tsp' = [tsp EXCEPT
                    !.total_distance = @ + tsp.distance_matrix[tsp.current][nearest],
                    !.current = nearest,
                    !.route = Append(@, nearest),
                    !.unvisited = @ \ {nearest},
                    !.pc = TspWhileTest(tsp.unvisited \ {nearest})]
    /\ TspUnchanged

(* lines 91-94 *)
tsp_return ==
    /\ tsp.pc = "return"
    /\ tsp' = [tsp EXCEPT
                 !.total_distance = @ + tsp.distance_matrix[tsp.current][tsp.start],
                 !.route = Append(@, tsp.start),
                 !.pc = "done"]
    /\ TspUnchanged

TspNext ==
    \/ tsp_setup
    \/ tsp_visit
    \/ tsp_return

(* a call that has not returned or raised takes its next step *)
SpecTsp == TspInit /\ [][TspNext]_vars /\ WF_vars(TspNext)

----------------------------------------------------------------------------
(* Vocabulary of the properties *)

TypeOK ==
    /\ pc \in {"call", "setup", "loop", "close", "done", "raised",
               "matrix_call", "matrix_done", "serving", "tsp"}
    /\ error \in {"none", "ValueError", "IndexError"}
    /\ bound \subseteq AllLocals

NumLocs == PyLen(cities)

(* the stop sequence of a vehicle, under either constructor's key *)
Stops(veh) == IF "route" \in DOMAIN veh THEN veh.route ELSE veh.stops

(* the vehicles of the returned value *)
ResultVehicles == IF impl = "simple_vrp" THEN result.vehicles ELSE result.routes

Occurrences(seq, x) == Cardinality({k \in 1..Len(seq) : seq[k] = x})

NonDepotStops(seq) == {k \in 1..Len(seq) : seq[k] # 0}

StopDemand(seq) ==
    SumOver([k \in NonDepotStops(seq) |-> demands[seq[k]]], NonDepotStops(seq))

(* the indices still unvisited *)
Unassigned == {i \in DOMAIN visited : ~visited[i]}

ValidInput ==
    /\ PyLen(cities) = PyLen(demands)
    /\ PyLen(demands) >= 1
    /\ demands[0] = 0
    /\ \A i \in DOMAIN demands : demands[i] >= 0
    /\ capacity > 0
    /\ num_vehicles >= 1

Constructing == pc \in {"loop", "close", "done"}

----------------------------------------------------------------------------
(* C1: on valid input, in every state of the construction and in the      *)
(* returned result, each vehicle's load is the sum of the demands of the   *)
(* non-depot stops of its route, and is at most the capacity.              *)
C1_LoadMatchesStops ==
    (ValidInput /\ Constructing) =>
        /\ \A v \in DOMAIN vehicles :
              /\ vehicles[v].load = StopDemand(Stops(vehicles[v]))
              /\ vehicles[v].load <= capacity
        /\ pc = "done" =>
              \A v \in DOMAIN ResultVehicles :
                 /\ ResultVehicles[v].load = StopDemand(Stops(ResultVehicles[v]))
                 /\ ResultVehicles[v].load <= capacity

(* a returned vehicle that carries two stops and is full, while a second  *)
(* vehicle exists *)
C1_Witness ==
    /\ ValidInput
    /\ pc = "done"
    /\ num_vehicles >= 2
    /\ \E v \in DOMAIN ResultVehicles :
          /\ Cardinality(NonDepotStops(Stops(ResultVehicles[v]))) = 2
          /\ ResultVehicles[v].load = capacity

(* C2 as stated: when construction finishes every index 0..n-1 is in       *)
(* exactly one vehicle's route or in the unassigned list, never both,      *)
(* never omitted.                                                          *)
C2_EveryIndexInOneRoute ==
    (ValidInput /\ pc = "done") =>
        \A i \in 0..(NumLocs - 1) :
           LET holders == {v \in DOMAIN ResultVehicles :
                              Occurrences(Stops(ResultVehicles[v]), i) > 0}
           IN  \/ Cardinality(holders) = 1 /\ i \notin Unassigned
               \/ Cardinality(holders) = 0 /\ i \in Unassigned

(* C2 amended: when construction finishes every non-depot index 1..n-1    *)
(* occurs exactly once in exactly one vehicle's route and is not           *)
(* unassigned, or occurs in no route and is unassigned; the depot index 0  *)
(* is in every vehicle's route and is never unassigned.                    *)
C2_Coverage ==
    (ValidInput /\ pc = "done") =>
        /\ \A i \in 1..(NumLocs - 1) :
              LET holders == {v \in DOMAIN ResultVehicles :
                                 Occurrences(Stops(ResultVehicles[v]), i) > 0}
              IN  \/ /\ Cardinality(holders) = 1
                     /\ \A v \in holders : Occurrences(Stops(ResultVehicles[v]), i) = 1
                     /\ i \notin Unassigned
                  \/ Cardinality(holders) = 0 /\ i \in Unassigned
        /\ 0 \notin Unassigned
        /\ \A v \in DOMAIN ResultVehicles : Occurrences(Stops(ResultVehicles[v]), 0) > 0

(* a finished construction with two vehicles holding one stop each *)
C2_Witness ==
    /\ ValidInput
    /\ pc = "done"
    /\ NumLocs = 3
    /\ Unassigned = {}
    /\ \A v \in DOMAIN ResultVehicles :
          Cardinality(NonDepotStops(Stops(ResultVehicles[v]))) = 1

(* C3: when the fleet cannot cover all demand the returned result reports  *)
(* the unassigned indices, no vehicle is loaded beyond its capacity and no *)
(* exception is raised.                                                    *)
C3_ReportsUnassigned ==
    (ValidInput /\ pc \in {"done", "raised"} /\ Unassigned # {}) =>
        /\ pc = "done"
        /\ \A v \in DOMAIN ResultVehicles : ResultVehicles[v].load <= capacity
        /\ "unassigned" \in DOMAIN result
        /\ result.unassigned = Unassigned

(* C4: in the returned result every vehicle's stop sequence begins and     *)
(* ends with the depot index 0, also for the vehicle that was still        *)
(* taking stops when the loop ended.                                       *)
C4_RoutesStartAndEndAtDepot ==
    pc = "done" =>
        \A v \in DOMAIN ResultVehicles :
           /\ Len(Stops(ResultVehicles[v])) >= 1
           /\ Stops(ResultVehicles[v])[1] = 0
           /\ Last(Stops(ResultVehicles[v])) = 0

(* the loop ended with every location visited while the vehicle at the    *)
(* cursor held stops and had not been returned to the depot *)
C4_Witness ==
    /\ pc = "done"
    /\ all(visited)
    /\ current_vehicle \in DOMAIN vehicles
    /\ Len(Stops(ResultVehicles[current_vehicle])) >= 3
    /\ Occurrences(Stops(ResultVehicles[current_vehicle]), 0) = 2

(* C5: an input whose lists differ in length, or whose depot demand is not *)
(* zero, is rejected with a validation error before anything is computed:  *)
(* no local is created and nothing is returned.  Stated for inputs with a  *)
(* depot, a vehicle and a positive capacity, so that nothing else is wrong *)
(* with them.                                                              *)
InvalidLists ==
    \/ PyLen(cities) # PyLen(demands)
    \/ PyLen(demands) >= 1 /\ demands[0] # 0

C5_InvalidListsRejected ==
    (InvalidLists /\ NumLocs >= 1 /\ num_vehicles >= 1 /\ capacity > 0) =>
        /\ pc \in {"call", "raised"}
        /\ pc = "raised" => error = "ValueError"
        /\ bound = {}
        /\ DOMAIN result = {}

(* C6: an input with num_vehicles <= 0 or capacity <= 0 is rejected with a *)
(* validation error before anything is computed; the assignment loop is    *)
(* never entered.  Stated for inputs whose lists are well formed.          *)
C6_BadFleetRejected ==
    (~InvalidLists /\ NumLocs >= 1 /\ (num_vehicles <= 0 \/ capacity <= 0)) =>
        /\ pc \in {"call", "setup", "raised"}
        /\ pc = "raised" => error = "ValueError"
        /\ bound = {}
        /\ DOMAIN result = {}

(* C7: an iteration of the loop that does not raise appends to the vehicle *)
(* at the cursor the feasible index (unvisited, non-depot, fitting the     *)
(* remaining capacity) nearest to the vehicle's last stop, the lowest such *)
(* index on a tie; it assigns nothing only when no index is feasible.      *)
Feasible ==
    LET veh == vehicles[current_vehicle]
    IN  {i \in 1..(NumLocs - 1) :
            ~visited[i] /\ veh.load + demands[i] <= capacity}

IterationChoosesNearest ==
    LET veh == vehicles[current_vehicle]
        row == distance_matrix[Last(Stops(veh))]
    IN  IF Feasible = {}
        THEN /\ visited' = visited
             /\ vehicles'[current_vehicle].load = veh.load
             /\ NonDepotStops(Stops(vehicles'[current_vehicle])) = NonDepotStops(Stops(veh))
        ELSE \E i \in Feasible :
                /\ \A j \in Feasible : row[i] <= row[j]
                /\ \A j \in Feasible : row[j] = row[i] => i <= j
                /\ Stops(vehicles'[current_vehicle]) = Append(Stops(veh), i)
                /\ vehicles'[current_vehicle].load = veh.load + demands[i]
                /\ vehicles'[current_vehicle].distance = veh.distance + row[i]
                /\ visited' = [visited EXCEPT ![i] = TRUE]

C7_NearestFeasibleLowestIndex ==
    [][(pc = "loop" /\ pc' # "raised") => IterationChoosesNearest]_vars

(* vehicle 0 went from the depot to index 1 while index 2, as near and    *)
(* fitting, was passed over *)
C7_Witness ==
    /\ ValidInput
    /\ pc \in {"loop", "close"}
    /\ NumLocs = 3
    /\ Stops(vehicles[0]) = <<0, 1>>
    /\ ~visited[2]
    /\ demands[2] <= capacity
    /\ distance_matrix[0][2] = distance_matrix[0][1]

(* C9: a vehicle to which no stop was assigned is returned with route      *)
(* exactly [0], load 0 and distance 0.                                     *)
C9_UnusedVehicleStaysAtDepot ==
    (ValidInput /\ pc = "done") =>
        \A v \in DOMAIN ResultVehicles :
           NonDepotStops(Stops(ResultVehicles[v])) = {} =>
              /\ Stops(ResultVehicles[v]) = <<0>>
              /\ ResultVehicles[v].load = 0
              /\ ResultVehicles[v].distance = 0

(* C10: the matrix built from a list of n identifiers is n x n, every      *)
(* entry is non-negative, the diagonal is 0 and the matrix is symmetric.   *)
C10_MatrixSquareZeroDiagonalSymmetric ==
    pc = "matrix_done" =>
        /\ DOMAIN distance_matrix = Indices(NumLocs)
        /\ \A i \in Indices(NumLocs) :
              /\ DOMAIN distance_matrix[i] = Indices(NumLocs)
              /\ distance_matrix[i][i] = 0
              /\ \A j \in Indices(NumLocs) :
                    /\ distance_matrix[i][j] >= 0
                    /\ distance_matrix[i][j] = distance_matrix[j][i]

(* a built matrix for a list with an unknown identifier, a repeated known  *)
(* identifier and a positive entry *)
C10_Witness ==
    /\ pc = "matrix_done"
    /\ NumLocs = 3
    /\ cities[0] = "xyz"
    /\ cities[1] = "jalandhar"
    /\ cities[2] = "jalandhar"
    /\ distance_matrix[0][1] > 0
    /\ distance_matrix[1][2] = 0

(* C11: an identifier that is not a key of the builder's table is given   *)
(* the depot's coordinate: in the matrix it is at distance 0 from 'depot'  *)
(* and from every other such identifier, and its row equals theirs.        *)
RegistryKeys ==
    IF impl = "simple_vrp" THEN DOMAIN PUNJAB_CITIES ELSE DOMAIN CITY_COORDINATES

AtDepot(id) == lower(id) \notin RegistryKeys \/ lower(id) = "depot"

C11_UnknownResolvesToDepot ==
    pc = "matrix_done" =>
        \A i, k \in Indices(NumLocs) :
           (AtDepot(cities[i]) /\ AtDepot(cities[k])) =>
              /\ distance_matrix[i][k] = 0
              /\ \A j \in Indices(NumLocs) :
                    distance_matrix[i][j] = distance_matrix[k][j]

(* C12: two identifiers that differ only in letter case or in leading or  *)
(* trailing whitespace resolve to the same coordinate and yield identical  *)
(* matrix rows.                                                            *)
SameUpToCaseAndTrim(a, b) ==
    a = b \/ {a, b} \subseteq {"jalandhar", "Jalandhar", " jalandhar"}

RowsIdentical(i, k) ==
    \A j \in Indices(NumLocs) : distance_matrix[i][j] = distance_matrix[k][j]

C12_CaseAndWhitespaceInsensitive ==
    pc = "matrix_done" =>
        \A i, k \in Indices(NumLocs) :
           SameUpToCaseAndTrim(cities[i], cities[k]) => RowsIdentical(i, k)

(* C13: when the sum of all demands is at most the capacity and there is  *)
(* at least one vehicle, the construction does not raise (on well-formed   *)
(* lists) and ends with every non-depot location in a route, none          *)
(* unassigned and no load above the capacity.                              *)
TotalDemand == SumOver(demands, DOMAIN demands)

C13_TotalDemandFitsAllCovered ==
    (num_vehicles >= 1 /\ TotalDemand <= capacity) =>
        /\ (~InvalidLists /\ NumLocs >= 1) => pc # "raised"
        /\ pc \in {"close", "done"} =>
              /\ Unassigned = {}
              /\ \A i \in 1..(NumLocs - 1) :
                    \E v \in DOMAIN vehicles : Occurrences(Stops(vehicles[v]), i) > 0
              /\ \A v \in DOMAIN vehicles : vehicles[v].load <= capacity

(* two locations with positive demands that together fill the capacity,   *)
(* returned on one vehicle of a fleet of two *)
C13_Witness ==
    /\ pc = "done"
    /\ ~InvalidLists
    /\ NumLocs = 3
    /\ num_vehicles = 2
    /\ demands[1] > 0
    /\ demands[2] > 0
    /\ TotalDemand = capacity
    /\ vehicles[0].load = capacity
    /\ Unassigned = {}

(* C15 as stated: the construction takes at most n iterations of the main *)
(* loop, n the number of locations.                                        *)
C15_AtMostNIterations == ValidInput => iterations <= NumLocs

(* C15 amended: the construction terminates for every input, after at     *)
(* most n + num_vehicles - 2 iterations of the main loop when n >= 2 and   *)
(* num_vehicles >= 1 (at most n - 1 assignments and num_vehicles closings, *)
(* not both at their maximum), and after at most one otherwise.            *)
IterationBound ==
    IF NumLocs >= 2 /\ num_vehicles >= 1
    THEN NumLocs + num_vehicles - 2
    ELSE 1

Terminated == pc \in {"done", "raised"}

C15_TerminatesWithinBound == <>Terminated /\ [](iterations <= IterationBound)

(* a returned construction that took more iterations than it has          *)
(* locations: three vehicles closed in turn on one location that fits none *)
C15_Witness ==
    /\ ValidInput
    /\ pc = "done"
    /\ NumLocs = 2
    /\ num_vehicles = 3
    /\ iterations = 3
    /\ iterations = IterationBound

(* C16: a location is never revisited.  On every step of the construction *)
(* a visited flag that is true stays true, a stop appended to a route is   *)
(* the depot or an index unvisited until then, each non-depot index occurs *)
(* at most once in all routes together, and an index is in some route      *)
(* exactly when its flag is true (for the depot: when there is a vehicle). *)
TotalOccurrences(vs, i) ==
    SumOver([v \in DOMAIN vs |-> Occurrences(Stops(vs[v]), i)], DOMAIN vs)

VisitedMatchesRoutes(vs, vis) ==
    /\ \A i \in 1..(NumLocs - 1) :
          /\ TotalOccurrences(vs, i) <= 1
          /\ vis[i] <=> TotalOccurrences(vs, i) = 1
    /\ num_vehicles >= 1 => (vis[0] /\ TotalOccurrences(vs, 0) >= 1)

AppendsOnlyUnvisited ==
    \A v \in DOMAIN vehicles :
       Stops(vehicles'[v]) # Stops(vehicles[v]) =>
          /\ Len(Stops(vehicles'[v])) = Len(Stops(vehicles[v])) + 1
          /\ SubSeq(Stops(vehicles'[v]), 1, Len(Stops(vehicles[v]))) = Stops(vehicles[v])
          /\ Last(Stops(vehicles'[v])) = 0 \/ ~visited[Last(Stops(vehicles'[v]))]

C16_NeverRevisited ==
    [][Constructing' =>
          /\ VisitedMatchesRoutes(vehicles', visited')
          /\ Constructing =>
                /\ \A i \in DOMAIN visited : visited[i] => visited'[i]
                /\ AppendsOnlyUnvisited]_vars

(* the second vehicle left the depot for index 2 although index 1, already *)
(* on the first vehicle's route, is no farther and would fit *)
C16_Witness ==
    /\ ValidInput
    /\ pc \in {"loop", "close"}
    /\ NumLocs = 3
    /\ num_vehicles >= 2
    /\ current_vehicle = 1
    /\ Stops(vehicles[0]) = <<0, 1, 0>>
    /\ Stops(vehicles[1]) = <<0, 2>>
    /\ distance_matrix[0][1] <= distance_matrix[0][2]
    /\ demands[1] <= capacity

(* C17: with at least one vehicle, the main pass ends in exactly one of    *)
(* ALL_ASSIGNED (every location visited, cursor < num_vehicles) and        *)
(* EXHAUSTED_FLEET (cursor = num_vehicles, some location unvisited); the    *)
(* cursor never exceeds num_vehicles, and an iteration of the loop starts   *)
(* only with the cursor on an existing vehicle and a location unvisited.   *)
ALL_ASSIGNED == Unassigned = {} /\ current_vehicle < num_vehicles

EXHAUSTED_FLEET == current_vehicle = num_vehicles /\ Unassigned # {}

C17_PassEndsAssignedOrExhausted ==
    num_vehicles >= 1 =>
        /\ Constructing => current_vehicle <= num_vehicles
        /\ pc = "loop" => (current_vehicle \in DOMAIN vehicles /\ Unassigned # {})
        /\ (pc = "raised" /\ iterations >= 1) => current_vehicle \in DOMAIN vehicles
        /\ pc \in {"close", "done"} => (ALL_ASSIGNED # EXHAUSTED_FLEET)

(* the pass ended by exhausting a fleet of two after placing one of two    *)
(* locations *)
C17_Witness ==
    /\ ValidInput
    /\ pc = "close"
    /\ NumLocs = 3
    /\ num_vehicles = 2
    /\ EXHAUSTED_FLEET
    /\ ~ALL_ASSIGNED
    /\ Cardinality(Unassigned) = 1

(* C18: vehicles are filled in sequence.  The cursor starts at 0 and a     *)
(* step leaves it or adds one to it; a step changes no vehicle but the one *)
(* at the cursor; a vehicle behind the cursor ends at the depot and its    *)
(* stops and load are never changed again; a vehicle ahead of the cursor   *)
(* has route [0], load 0 and distance 0.                                   *)
Behind(v, cursor) == v < cursor

Ahead(v, cursor) == v > cursor

Untouched(veh) == Stops(veh) = <<0>> /\ veh.load = 0 /\ veh.distance = 0

FilledInSequence(vs, cursor) ==
    \A v \in DOMAIN vs :
       /\ Behind(v, cursor) => Last(Stops(vs[v])) = 0
       /\ Ahead(v, cursor) => Untouched(vs[v])

C18_NoBacktracking ==
    [][Constructing' =>
          /\ FilledInSequence(vehicles', current_vehicle')
          /\ ~Constructing => current_vehicle' = 0
          /\ Constructing =>
                /\ current_vehicle' \in {current_vehicle, current_vehicle + 1}
                /\ \A v \in DOMAIN vehicles :
                      /\ v # current_vehicle =>
                            /\ Stops(vehicles'[v]) = Stops(vehicles[v])
                            /\ vehicles'[v].load = vehicles[v].load
                      /\ Behind(v, current_vehicle) =>
                            /\ Stops(vehicles'[v]) = Stops(vehicles[v])
                            /\ vehicles'[v].load = vehicles[v].load]_vars

(* the second of three vehicles is being filled: the first is closed with  *)
(* a stop, the third is untouched *)
C18_Witness ==
    /\ ValidInput
    /\ pc = "loop"
    /\ num_vehicles = 3
    /\ NumLocs = 3
    /\ current_vehicle = 1
    /\ Len(Stops(vehicles[0])) = 3
    /\ Last(Stops(vehicles[0])) = 0
    /\ Untouched(vehicles[2])

(* C19: in the result, each vehicle's distance is the sum of the matrix   *)
(* entries of the consecutive pairs of its stop sequence, the return leg   *)
(* to the depot included once, and the aggregate total distance is the sum *)
(* of these over the vehicles.                                             *)
PathLength(seq, matrix) ==
    SumOver([k \in 1..(Len(seq) - 1) |-> matrix[seq[k]][seq[k + 1]]],
            1..(Len(seq) - 1))

AggregateDistance ==
    IF impl = "simple_vrp"
    THEN result.total_distance
    ELSE optimize_routes_total_distance(result.routes)

C19_DistanceIsSumOfHops ==
    pc = "done" =>
        /\ \A v \in DOMAIN ResultVehicles :
              ResultVehicles[v].distance =
                 PathLength(Stops(ResultVehicles[v]), distance_matrix)
        /\ AggregateDistance =
              SumOver([v \in DOMAIN ResultVehicles |->
                          PathLength(Stops(ResultVehicles[v]), distance_matrix)],
                      DOMAIN ResultVehicles)

(* two vehicles each went out to one location and came back *)
C19_Witness ==
    /\ ValidInput
    /\ pc = "done"
    /\ num_vehicles = 2
    /\ Stops(ResultVehicles[0]) = <<0, 1, 0>>
    /\ Stops(ResultVehicles[1]) = <<0, 2, 0>>
    /\ ResultVehicles[0].distance = 2 * distance_matrix[0][1]
    /\ ResultVehicles[0].distance > 0
    /\ AggregateDistance = ResultVehicles[0].distance + ResultVehicles[1].distance

(* C14: when two calls run with their steps interleaved in any order, a   *)
(* step changes the frame of one call only and changes it as the call's    *)
(* own step function does; no call's arguments change; and every call's    *)
(* vehicles, visited flags, cursor and result are at all times those of    *)
(* some point of the same call running alone, its returned frame being the *)
(* one it returns alone.  (The registry tables are constants of the model: *)
(* no statement of either constructor or matrix builder assigns to them.)  *)
MaxSteps == MaxLocs + MaxVehicles + 3

RECURSIVE RunAlone(_, _)
RunAlone(fr, k) == IF k = 0 THEN fr ELSE RunAlone(FrameStep(fr), k - 1)

Start(fr) == Frame(fr.impl, fr.cities, fr.demands, fr.num_vehicles, fr.capacity)

(* running alone from frame at reaches fr within k steps *)
RECURSIVE ReachedAlone(_, _, _)
ReachedAlone(at, fr, k) ==
    at = fr \/ (k > 0 /\ ~Returned(at) /\ ReachedAlone(FrameStep(at), fr, k - 1))

AsAlone(fr) ==
    /\ ReachedAlone(Start(fr), fr, MaxSteps)
    /\ Returned(fr) => fr = RunAlone(Start(fr), MaxSteps)

SameArguments(a, b) ==
    /\ a.demands = b.demands
    /\ a.num_vehicles = b.num_vehicles
    /\ a.capacity = b.capacity
    /\ a.num_vehicles >= 1

SameVehicle(x, y) ==
    /\ Stops(x) = Stops(y)
    /\ x.load = y.load
    /\ x.distance = y.distance

C20_ImplementationsEquivalent ==
    \A a, b \in DOMAIN frames :
       (/\ frames[a].impl = "simple_vrp"
        /\ frames[b].impl = "greedy_route_optimization"
        /\ SameArguments(frames[a], frames[b])
        /\ frames[a].pc = "done"
        /\ frames[b].pc = "done"
        /\ frames[a].distance_matrix = frames[b].distance_matrix)
       => /\ DOMAIN frames[a].vehicles = DOMAIN frames[b].vehicles
          /\ \A v \in DOMAIN frames[a].vehicles :
                SameVehicle(frames[a].vehicles[v], frames[b].vehicles[v])

(* C21: with at least one vehicle and non-negative demands, when the      *)
(* construction ends with a location unvisited, every vehicle's route ends *)
(* at the depot and the location's demand added to the final load of any   *)
(* vehicle exceeds the capacity.                                           *)
NonNegativeDemands == \A i \in DOMAIN demands : demands[i] >= 0

FitsOnNoVehicle(i, vs) ==
    \A v \in DOMAIN vs : vs[v].load + demands[i] > capacity

C21_UnassignedFitsNowhere ==
    (num_vehicles >= 1 /\ NonNegativeDemands /\ pc \in {"close", "done"}) =>
        \A i \in Unassigned :
           /\ i \in DOMAIN demands
           /\ FitsOnNoVehicle(i, vehicles)
           /\ \A v \in DOMAIN vehicles : Last(Stops(vehicles[v])) = 0
           /\ pc = "done" => FitsOnNoVehicle(i, ResultVehicles)

(* the only vehicle is loaded and closed, and the location left out would  *)
(* fit on an empty vehicle but not on this one                             *)
C21_Witness ==
    /\ ValidInput
    /\ pc = "done"
    /\ NumLocs = 3
    /\ num_vehicles = 1
    /\ Cardinality(Unassigned) = 1
    /\ \E i \in Unassigned : demands[i] <= capacity
    /\ vehicles[0].load > 0
    /\ Len(Stops(vehicles[0])) = 3
    /\ Last(Stops(vehicles[0])) = 0

(* C22: with n >= 2 locations, non-negative demands each at most the      *)
(* capacity, and at least n - 1 vehicles, the construction returns with    *)
(* every location visited; the cursor never reaches num_vehicles, and      *)
(* every vehicle the cursor has left, and at the end the one it is on,     *)
(* has taken at least one stop.                                            *)
EnoughVehicles ==
    /\ ~InvalidLists
    /\ NumLocs >= 2
    /\ NonNegativeDemands
    /\ \A i \in DOMAIN demands : demands[i] <= capacity
    /\ num_vehicles >= NumLocs - 1

TookAStop(veh) == NonDepotStops(Stops(veh)) # {}

C22_EnoughVehiclesAllVisited ==
    EnoughVehicles =>
        /\ <>(pc = "done" /\ Unassigned = {})
        /\ [](pc # "raised")
        /\ [](Constructing =>
                 /\ current_vehicle < num_vehicles
                 /\ ~EXHAUSTED_FLEET
                 /\ \A v \in DOMAIN vehicles :
                       Behind(v, current_vehicle) => TookAStop(vehicles[v])
                 /\ pc \in {"close", "done"} =>
                       TookAStop(vehicles[current_vehicle]))

(* exactly n - 1 = 2 vehicles, each needed: the second location does not   *)
(* fit on the first vehicle                                                *)
C22_Witness ==
    /\ EnoughVehicles
    /\ pc = "done"
    /\ NumLocs = 3
    /\ num_vehicles = 2
    /\ current_vehicle = 1
    /\ Unassigned = {}
    /\ Stops(vehicles[0]) = <<0, 1, 0>>
    /\ Stops(vehicles[1]) = <<0, 2, 0>>
    /\ vehicles[0].load = capacity

(* C23: for every n x n matrix with n >= 1 and every start in 0..n-1,     *)
(* nearest_neighbor_tsp returns; the route has length n + 1, begins and    *)
(* ends at start and holds every other index exactly once in between; each *)
(* step of the loop goes to an unvisited index whose distance from the     *)
(* current one is minimal among the unvisited; and the total distance is   *)
(* the sum of the matrix entries along the consecutive pairs of the route. *)
TspLen == PyLen(tsp.distance_matrix)

TspValid == TspLen >= 1 /\ tsp.start \in Indices(TspLen)

TspRouteIsTour ==
    /\ Len(tsp.route) = TspLen + 1
    /\ tsp.route[1] = tsp.start
    /\ Last(tsp.route) = tsp.start
    /\ \A i \in Indices(TspLen) \ {tsp.start} :
          Cardinality({k \in 2..TspLen : tsp.route[k] = i}) = 1
    /\ \A k \in 2..TspLen : tsp.route[k] # tsp.start

TspStepToNearest ==
    tsp.pc = "loop" =>
        LET next == Last(tsp'.route)
        IN  /\ Len(tsp'.route) = Len(tsp.route) + 1
            /\ next \in tsp.unvisited
            /\ \A y \in tsp.unvisited :
                  tsp.distance_matrix[tsp.current][next] <=
                     tsp.distance_matrix[tsp.current][y]
            /\ tsp'.current = next

C23_NearestNeighbourTour ==
    /\ TspValid => <>(tsp.pc = "done")
    /\ [](TspValid => tsp.pc # "raised")
    /\ []((TspValid /\ tsp.pc = "done") =>
             /\ TspRouteIsTour
             /\ tsp.total_distance = PathLength(tsp.route, tsp.distance_matrix))
    /\ [][TspValid => TspStepToNearest]_vars

(* a tour of three indices from start 1 whose first step had one nearest   *)
(* index and whose legs have different lengths                             *)
C23_Witness ==
    /\ DOMAIN tsp # {}
    /\ tsp.pc = "done"
    /\ TspLen = 3
    /\ tsp.start = 1
    /\ tsp.route = << 1, 2, 0, 1 >>
    /\ tsp.distance_matrix[1][2] < tsp.distance_matrix[1][0]
    /\ tsp.distance_matrix[2][0] # tsp.distance_matrix[0][1]
    /\ tsp.total_distance = tsp.distance_matrix[1][2] + tsp.distance_matrix[2][0]
                            + tsp.distance_matrix[0][1]

====
